---- MODULE Spec2Model ----
(***************************************************************************)
(* A model of src/logger.rs: the Logger (log file + bounded scroll buffer), *)
(* the line sanitizer ANSI_ESCAPE_CODE.replace_all, the two display modes   *)
(* (add_uploaded_file / start_remote_logging + update_console) and the      *)
(* terminal they repaint.                                                   *)
(***************************************************************************)
EXTENDS Integers, Sequences, FiniteSets, TLC

\* ------------------------------------------------------------------------
\* Bounds of the model
\* ------------------------------------------------------------------------
MaxStrLen == 6      \* SanSpec: longest text given to the sanitizer
MaxCalls == 2       \* Spec: calls of log and pushes into the buffer over one run
MaxIoErrs == 1      \* Spec: failing writes to the log file over one run
MaxDeepPushes == 7  \* BufSpec: pushes into the scroll buffer over one run
PriorRows == 8      \* rows the terminal shows above the cursor when a run begins
MaxExisting == 3    \* OpenSpec: deployment_<n>.txt may pre-exist for n in 1..MaxExisting
MaxLiveLines == 3   \* LiveSpec: remote lines delivered over one run

\* ------------------------------------------------------------------------
\* Program constants
\* ------------------------------------------------------------------------
REMOTE_TERM_SIZE == 5

\* ------------------------------------------------------------------------
\* Text.  A text is a sequence of characters; the sanitizer's regular
\* expression only distinguishes the five classes below, so a character is
\* represented by its class.
\* ------------------------------------------------------------------------
ESC == "ESC"     \* \x1B
LBR == "["       \* [
DIGIT == "0"       \* one of 0-9 and ;
LETTER == "m"       \* one of a-z, A-Z
PLAIN == "_"       \* any other character (space, quote, check mark, ...)
NL == "NL"     \* the line terminator written by writeln!

Chars == {ESC, LBR, DIGIT, LETTER, PLAIN}

\* Position just after the run of [0-9;] characters that starts at j.
RECURSIVE SkipParams(_, _)
SkipParams(s, j) ==
    IF j <= Len(s) /\ s[j] = DIGIT THEN SkipParams(s, j + 1) ELSE j

\* End position of a match of \x1B\[[0-9;]*[a-zA-Z] starting at i, or 0.
MatchEnd(s, i) ==
    IF i + 1 <= Len(s) /\ s[i] = ESC /\ s[i + 1] = LBR
    THEN LET j == SkipParams(s, i + 2)
         IN  IF j <= Len(s) /\ s[j] = LETTER THEN j ELSE 0
    ELSE 0

\* TRUE iff the regular expression matches somewhere in s.
HasEscape(s) == \E i \in 1..Len(s) : MatchEnd(s, i) # 0

\* Regex::replace_all(s, ""): one left-to-right pass that drops every
\* leftmost non-overlapping match and copies everything else.
RECURSIVE ReplaceFrom(_, _)
ReplaceFrom(s, i) ==
    IF i > Len(s) THEN <<>>
    ELSE LET e == MatchEnd(s, i)
         IN  IF e # 0 THEN ReplaceFrom(s, e + 1)
             ELSE <<s[i]>> \o ReplaceFrom(s, i + 1)

Sanitize(s) == ReplaceFrom(s, 1)

\* ------------------------------------------------------------------------
\* Inputs
\* ------------------------------------------------------------------------
\* Messages given to log: plain text, coloured text, and a text in which
\* one escape sequence is nested inside another.
Messages ==
    << <<LETTER, LETTER>>,
       <<ESC, LBR, DIGIT, LETTER, LETTER>>,
       <<ESC, ESC, LBR, LETTER, LBR, LETTER>> >>

\* File names given to add_uploaded_file: a plain one and one that itself
\* contains an escape sequence.
FileNames ==
    << <<LETTER>>,
       <<ESC, LBR, LETTER, LETTER>> >>

\* The text of the n-th line a remote stream delivers.
StreamLine(src, n) ==
    IF n % 2 = 1 THEN <<LETTER>> ELSE <<ESC, LBR, LETTER, LETTER>>

Branches == {"key", "out", "err"}

\* ------------------------------------------------------------------------
\* State
\* ------------------------------------------------------------------------
VARIABLES
    pc,             \* "Start" (no Logger yet), "Idle", "Running" (inside the
                    \* loop of start_remote_logging), "Stopped" (it returned),
                    \* "Panicked" (the process aborted)
    files,          \* .deployments: number n |-> content of deployment_<n>.txt
    logNum,         \* the n of Logger.log_file (0: no Logger)
    flushedLen,     \* length of the log file when flush was last called
    remote_buffer,  \* Logger.remote_buffer, front first
    rawMode,        \* terminal raw mode (enable_raw_mode / disable_raw_mode)
    disabled,       \* branches of the current select! whose pattern failed
    outN, errN,     \* lines consumed so far from stdout_reader / stderr_reader
    screen, cursor, \* terminal rows, top first, and the cursor's row
    ioErrs,         \* eprintln! reports of a failed write to the log file
    logs, pushes,   \* calls of log / pushes into the buffer so far
    pushed,         \* history: entries pushed since the buffer was created
    consumed,       \* history: remote lines handed to update_console in the
                    \* current remote session
    sessLen,        \* history: length of the log file when that session began
    finished,       \* history: that session has printed its "finished" line
    escReady,       \* an Escape key event is the next item of the EventStream
    sess,           \* RaceSpec: where each of two processes is in Logger::new,
                    \* [at, num]
    paint,          \* history: the last repaint, [kind, prev, top, cleared]: its
                    \* mode, its prev_buffer_length, the cursor's row after its
                    \* MoveUp, and the rows it cleared
    last,           \* history: the operation or event handled last
    lim,            \* the bounds of this run: [calls, ioErrs, names]
    sanIn, sanOut   \* SanSpec: a text and the sanitizer's output for it

vars == <<pc, files, logNum, flushedLen, remote_buffer, rawMode, disabled,
          outN, errN, screen, cursor, ioErrs, logs, pushes,
          pushed, consumed, sessLen, finished, escReady, sess, paint, last, lim, sanIn, sanOut>>

loggerVars == <<logNum, remote_buffer, pushed>>
loopVars == <<rawMode, disabled, outN, errN, consumed, sessLen, finished, escReady>>
termVars == <<screen, cursor>>
fileVars == <<files, flushedLen, ioErrs>>
sanVars == <<lim, sanIn, sanOut, sess>>

\* The content of Logger.log_file.
file == files[logNum]

\* ------------------------------------------------------------------------
\* Terminal.  A row holds <<kind, source, number>>.
\* ------------------------------------------------------------------------
Blank == <<"blank", "", 0>>
PriorRow == <<"prior", "", 0>>
MsgRow(i) == <<"msg", "", i>>
RowOf(entry) == <<"entry", entry[1], entry[2]>>
StatusRow == <<"status", "", 0>>
FinishedRow == <<"finished", "", 0>>

\* A terminal is [rows, row, clr]: the rows, the cursor's row, and the
\* number of Clear commands it has executed since the operation began.
Term(rows, row) == [rows |-> rows, row |-> row, clr |-> 0]

\* MoveUp(n): the cursor stops at the top row.
MoveUp(t, n) == [t EXCEPT !.row = IF t.row - n < 1 THEN 1 ELSE t.row - n]

\* Clear(ClearType::CurrentLine)
ClearLine(t) == [t EXCEPT !.rows[t.row] = Blank, !.clr = @ + 1]

\* Print text on the current row, then "\n": the cursor goes one row down,
\* onto a new blank row when it was on the last one.
PrintLn(t, content) ==
    LET rows == [t.rows EXCEPT ![t.row] = content]
    IN  [t EXCEPT !.rows = IF t.row = Len(rows) THEN Append(rows, Blank) ELSE rows,
                  !.row = t.row + 1]

\* ------------------------------------------------------------------------
\* Logger::new
\* ------------------------------------------------------------------------
\* file_path.exists()
Exists(fs, num) == num \in DOMAIN fs

\* Numbering by a count of the files instead of a search for the first gap.
FindNumByCount(fs, num) == Cardinality(DOMAIN fs) + 1

\* The loop of Logger::new: the first num, counting from `num`, whose file
\* does not exist.
RECURSIVE FindNum(_, _)
FindNum(fs, num) == IF ~Exists(fs, num) THEN num ELSE FindNum(fs, num + 1)

\* OpenOptions::new().append(true).create(true).open(file_path)
OpenAppend(fs, num) ==
    IF Exists(fs, num) THEN fs
    ELSE [n \in DOMAIN fs \cup {num} |-> IF n = num THEN <<>> ELSE fs[n]]

\* What a file that already exists holds.
OldContent == <<PLAIN, NL>>

New ==
    /\ pc = "Start"
    /\ LET num == FindNum(files, 1)
       IN  /\ files' = OpenAppend(files, num)
           /\ logNum' = num
    /\ remote_buffer' = <<>>
    /\ pushed' = <<>>
    /\ flushedLen' = 0
    /\ pc' = "Idle"
    /\ last' = [op |-> "new", ok |-> TRUE, io |-> TRUE, arg |-> 0]
    /\ UNCHANGED <<ioErrs, loopVars, termVars, logs, pushes, sanVars>>
    /\ UNCHANGED paint

\* .expect("cannot open file"): the process aborts.
NewFail ==
    /\ pc = "Start"
    /\ pc' = "Panicked"
    /\ last' = [op |-> "new", ok |-> FALSE, io |-> TRUE, arg |-> 0]
    /\ UNCHANGED <<loggerVars, fileVars, loopVars, termVars, logs, pushes, sanVars>>
    /\ UNCHANGED paint

\* ------------------------------------------------------------------------
\* The log file
\* ------------------------------------------------------------------------
\* writeln! on a file opened with truncate instead of append: the write
\* replaces what the file held.
WriteLnTruncating(fs, num, text, k) ==
    [fs EXCEPT ![num] = SubSeq(text \o <<NL>>, 1, k)]

\* writeln!(log_file, "{}", text) of which the first k characters reach the
\* file: all Len(text) + 1 of them when the write succeeds, fewer when it
\* fails (write_fmt writes the text and the terminator in turn).  The file
\* is open in append mode.
WriteLn(fs, num, text, k) ==
    [fs EXCEPT ![num] = @ \o SubSeq(text \o <<NL>>, 1, k)]

\* The outcomes of writing `text`: Len(text) + 1 is success; a failure,
\* which the run allows lim.ioErrs times, leaves nothing (0) or the text
\* without its terminator (Len(text)) in the file.
Outcomes(text) ==
    {Len(text) + 1} \cup (IF ioErrs < lim.ioErrs THEN {0, Len(text)} ELSE {})

WriteOk(text, k) == k = Len(text) + 1

\* The match on writeln!'s result without its Err arm.
ReportNothing(n, ok) == n

\* match writeln!(...) { Ok(_) => {}, Err(e) => eprintln!(...) }: n counts
\* the errors reported; the operation goes on in both arms.
Report(n, ok) == IF ok THEN n ELSE n + 1

\* log_to_file without its call of flush.
NoFlushAfterWrite(fs, num, old) == old

\* The length up to which the file counts as flushed after log_to_file:
\* log_to_file calls flush after writeln!, whatever writeln! returned.
\* flush of a std::fs::File returns Ok(()) always, so its Err branch is
\* never taken.
FlushAfterWrite(fs, num, old) == Len(fs[num])

\* log_to_file(message)
LogToFile(text, k) ==
    /\ files' = WriteLn(files, logNum, text, k)
    /\ ioErrs' = Report(ioErrs, WriteOk(text, k))
    /\ flushedLen' = FlushAfterWrite(files', logNum, flushedLen)

\* What log hands to log_to_file.
LogText(message) == Sanitize(message)

\* log(message): println!, then log_to_file of the sanitized message.
Log(i, k, tok) ==
    /\ pc \in {"Idle", "Stopped"}
    /\ logs + pushes < lim.calls
    /\ logs' = logs + 1
    /\ last' = [op |-> "log", ok |-> tok, io |-> WriteOk(LogText(Messages[i]), k), arg |-> i]
    /\ IF tok
       THEN /\ LET t == PrintLn(Term(screen, cursor), MsgRow(i))
               IN  screen' = t.rows /\ cursor' = t.row
            /\ LogToFile(LogText(Messages[i]), k)
            /\ UNCHANGED pc
       ELSE /\ pc' = "Panicked"
            /\ UNCHANGED <<termVars, fileVars>>
    /\ UNCHANGED <<loggerVars, loopVars, pushes, sanVars>>
    /\ UNCHANGED paint

\* ------------------------------------------------------------------------
\* The scroll buffer
\* ------------------------------------------------------------------------
\* Push with the capacity test off by one: the buffer grows to
\* REMOTE_TERM_SIZE + 1 entries before the oldest is dropped.
PushLate(buffer, entry) ==
    IF Len(buffer) > REMOTE_TERM_SIZE
    THEN Append(Tail(buffer), entry)
    ELSE Append(buffer, entry)

\* Push at the wrong end: pop_back when full, then push_front.
PushFront(buffer, entry) ==
    IF Len(buffer) = REMOTE_TERM_SIZE
    THEN <<entry>> \o SubSeq(buffer, 1, Len(buffer) - 1)
    ELSE <<entry>> \o buffer

\* if buffer.len() == REMOTE_TERM_SIZE { pop_front() }; push_back(entry)
Push(buffer, entry) ==
    IF Len(buffer) = REMOTE_TERM_SIZE
    THEN Append(Tail(buffer), entry)
    ELSE Append(buffer, entry)

\* MoveUp(prev_buffer_length + 1)
RepaintTop(t, prev) == MoveUp(t, prev + 1)

\* The record of a repaint that took the terminal from t0 to t.
Painted(kind, prev, t0, t) ==
    [kind |-> kind, prev |-> prev, top |-> RepaintTop(t0, prev).row, cleared |-> t.clr]

\* The loop over buffer.iter() of add_uploaded_file: clear the row, print
\* the line.
RECURSIVE PrintFiles(_, _)
PrintFiles(t, lines) ==
    IF lines = <<>> THEN t
    ELSE PrintFiles(PrintLn(ClearLine(t), RowOf(Head(lines))), Tail(lines))

\* The repaint of add_uploaded_file.
RepaintFiles(t, prev, buffer) ==
    ClearLine(PrintFiles(RepaintTop(t, prev), buffer))

\* The line add_uploaded_file writes to the log file: the check mark, a
\* space, and the file name between quotes, as it was given.
UploadText(file_name) == <<PLAIN, PLAIN, PLAIN>> \o file_name \o <<PLAIN>>

\* add_uploaded_file(file_name)
AddUploadedFile(i, k, tok) ==
    /\ pc \in {"Idle", "Stopped"}
    /\ logs + pushes < lim.calls
    /\ pushes' = pushes + 1
    /\ LET entry == <<"up", i>>
           prev == Len(remote_buffer)
       IN  /\ remote_buffer' = Push(remote_buffer, entry)
           /\ pushed' = Append(pushed, entry)
           /\ files' = WriteLn(files, logNum, UploadText(FileNames[i]), k)
           /\ ioErrs' = Report(ioErrs, WriteOk(UploadText(FileNames[i]), k))
           /\ IF tok
              THEN /\ LET t == RepaintFiles(Term(screen, cursor), prev, remote_buffer')
                      IN  /\ screen' = t.rows /\ cursor' = t.row
                          /\ paint' = Painted("files", prev, Term(screen, cursor), t)
                   /\ UNCHANGED pc
              ELSE /\ pc' = "Panicked"
                   /\ UNCHANGED <<termVars, paint>>
    /\ last' = [op |-> "upload", ok |-> tok, io |-> WriteOk(UploadText(FileNames[i]), k), arg |-> i]
    /\ UNCHANGED <<logNum, flushedLen, loopVars, logs, sanVars>>

\* stop_files_display()
StopFilesDisplay ==
    /\ pc \in {"Idle", "Stopped"}
    /\ remote_buffer' = <<>>
    /\ pushed' = <<>>
    /\ flushedLen' = Len(file)
    /\ last' = [op |-> "stop", ok |-> TRUE, io |-> TRUE, arg |-> 0]
    /\ UNCHANGED <<pc, logNum, files, ioErrs, loopVars, termVars, logs, pushes, sanVars>>
    /\ UNCHANGED paint

\* ------------------------------------------------------------------------
\* start_remote_logging and update_console
\* ------------------------------------------------------------------------
\* Entry of start_remote_logging: the two FramedRead readers, raw mode, the
\* EventStream, and the first select!.
StartRemoteLogging ==
    /\ pc \in {"Idle", "Stopped"}
    /\ pc' = "Running"
    /\ rawMode' = TRUE
    /\ disabled' = {}
    /\ outN' = 0 /\ errN' = 0
    /\ consumed' = <<>>
    /\ sessLen' = Len(file)
    /\ finished' = FALSE
    /\ escReady' = FALSE
    /\ last' = [op |-> "start", ok |-> TRUE, io |-> TRUE, arg |-> 0]
    /\ UNCHANGED <<loggerVars, fileVars, termVars, logs, pushes, sanVars>>
    /\ UNCHANGED paint

\* enable_raw_mode().unwrap() fails: the process aborts.
StartFail ==
    /\ pc \in {"Idle", "Stopped"}
    /\ pc' = "Panicked"
    /\ last' = [op |-> "start", ok |-> FALSE, io |-> TRUE, arg |-> 0]
    /\ UNCHANGED <<loggerVars, fileVars, loopVars, termVars, logs, pushes, sanVars>>
    /\ UNCHANGED paint

\* The loop of update_console without its Clear command.
RECURSIVE PrintConsoleNoClear(_, _)
PrintConsoleNoClear(t, lines) ==
    IF lines = <<>> THEN t
    ELSE PrintConsoleNoClear(PrintLn(t, RowOf(Head(lines))), Tail(lines))

\* The loop over accessible_buffer.iter() of update_console: clear the row,
\* print "$ ", the line and "\n".

RECURSIVE PrintConsole(_, _)
PrintConsole(t, lines) ==
    IF lines = <<>> THEN t
    ELSE PrintConsole(PrintLn(ClearLine(t), RowOf(Head(lines))), Tail(lines))

\* The repaint of update_console: the buffer's lines, then the row
\* "Remote console: Press ESC to quit".
RepaintConsole(t, prev, buffer) ==
    PrintLn(ClearLine(PrintConsole(RepaintTop(t, prev), buffer)), StatusRow)

\* What update_console does to the log file: nothing; it is given the
\* buffer and the line only.
ConsoleLog(fs, num, text) == fs

\* update_console(buffer, new_line), called by the stdout and the stderr
\* branch of select!.
UpdateConsole(entry, tok) ==
    /\ LET prev == Len(remote_buffer)
       IN  /\ remote_buffer' = Push(remote_buffer, entry)
           /\ pushed' = Append(pushed, entry)
           /\ consumed' = Append(consumed, entry)
           /\ files' = ConsoleLog(files, logNum, StreamLine(entry[1], entry[2]))
           /\ IF tok
              THEN /\ LET t == RepaintConsole(Term(screen, cursor), prev, remote_buffer')
                      IN  /\ screen' = t.rows /\ cursor' = t.row
                          /\ paint' = Painted("console", prev, Term(screen, cursor), t)
                   /\ pc' = "Running"
              ELSE /\ pc' = "Panicked"
                   /\ UNCHANGED <<termVars, paint>>

\* A branch of select! whose item does not match Some(Ok(_)) is disabled
\* until the select! completes; with all three disabled select! panics,
\* as it has no else branch.
Disable(branch) ==
    /\ disabled' = disabled \cup {branch}
    /\ pc' = IF disabled' = Branches THEN "Panicked" ELSE "Running"

\* Some(Ok(next_line)) = stdout_reader.next() / stderr_reader.next()
StreamLineEvent(src, tok) ==
    /\ pc = "Running"
    /\ src \notin disabled
    /\ logs + pushes < lim.calls
    /\ pushes' = pushes + 1
    /\ IF src = "out"
       THEN /\ outN' = outN + 1
            /\ UpdateConsole(<<"out", outN + 1>>, tok)
            /\ UNCHANGED errN
       ELSE /\ errN' = errN + 1
            /\ UpdateConsole(<<"err", errN + 1>>, tok)
            /\ UNCHANGED outN
    /\ disabled' = {}
    /\ last' = [op |-> "line", ok |-> tok, io |-> TRUE, arg |-> 0]
    /\ UNCHANGED <<logNum, flushedLen, ioErrs, rawMode, sessLen, finished, escReady,
                   logs, sanVars>>

\* A remote stream yields an item that is no Some(Ok(line)): Some(Err(_)),
\* a line LinesCodec could not decode, or None, the end of the stream.
StreamNoMatch(src, item) ==
    /\ pc = "Running"
    /\ src \notin disabled
    /\ Disable(src)
    /\ last' = [op |-> IF item = "Err" THEN "line_err" ELSE "line_eof", ok |-> TRUE, io |-> TRUE, arg |-> 0]
    /\ UNCHANGED <<loggerVars, fileVars, termVars, rawMode, outN, errN, consumed,
                   sessLen, finished, escReady, logs, pushes, sanVars>>
    /\ UNCHANGED paint

\* The status line printed on Escape: MoveUp(1), Clear, "Remote console:
\* finished\n".
PrintFinished(t) == PrintLn(ClearLine(MoveUp(t, 1)), FinishedRow)

\* The code after the loop without the reset of remote_buffer.
AfterLoopKeepBuffer ==
    /\ rawMode' = FALSE
    /\ flushedLen' = Len(file)
    /\ UNCHANGED <<remote_buffer, pushed>>
    /\ pc' = "Stopped"

\* The Escape handler without its break: the loop goes on to the next
\* select!.
AfterLoopNoBreak ==
    /\ pc' = "Running"
    /\ UNCHANGED <<rawMode, flushedLen, remote_buffer, pushed>>

\* What follows the loop: disable_raw_mode, flush of the log file, a new
\* empty buffer.
AfterLoop ==
    /\ rawMode' = FALSE
    /\ flushedLen' = Len(file)
    /\ remote_buffer' = <<>>
    /\ pushed' = <<>>
    /\ pc' = "Stopped"

\* Some(Ok(event)) = reader.next() with event == Event::Key(KeyCode::Esc):
\* the status line, break, and the code after the loop.  res is "ok", or
\* the unwrap that fails: "print" (execute!) or "raw" (disable_raw_mode).
KeyEsc(res) ==
    /\ pc = "Running"
    /\ "key" \notin disabled
    /\ disabled' = {}
    /\ escReady' = FALSE
    /\ last' = [op |-> "esc", ok |-> res = "ok", io |-> TRUE, arg |-> 0]
    /\ IF res = "print"
       THEN /\ pc' = "Panicked"
            /\ UNCHANGED <<termVars, rawMode, flushedLen, remote_buffer, pushed, finished>>
       ELSE /\ LET t == PrintFinished(Term(screen, cursor))
               IN  screen' = t.rows /\ cursor' = t.row
            /\ finished' = TRUE
            /\ IF res = "raw"
               THEN /\ pc' = "Panicked"
                    /\ UNCHANGED <<rawMode, flushedLen, remote_buffer, pushed>>
               ELSE AfterLoop
    /\ UNCHANGED <<logNum, files, ioErrs, outN, errN, consumed, sessLen, logs,
                   pushes, sanVars>>
    /\ UNCHANGED paint

\* Some(Ok(event)) with any other event: the handler does nothing and the
\* loop starts the next select!.
KeyOther ==
    /\ pc = "Running"
    /\ "key" \notin disabled
    /\ ~escReady
    /\ disabled' = {}
    /\ last' = [op |-> "key", ok |-> TRUE, io |-> TRUE, arg |-> 0]
    /\ UNCHANGED <<pc, loggerVars, fileVars, termVars, rawMode, outN, errN,
                   consumed, sessLen, finished, escReady, logs, pushes, sanVars>>
    /\ UNCHANGED paint

\* Some(Err(_)) from the EventStream.
KeyErr ==
    /\ pc = "Running"
    /\ "key" \notin disabled
    /\ ~escReady
    /\ Disable("key")
    /\ last' = [op |-> "key_err", ok |-> TRUE, io |-> TRUE, arg |-> 0]
    /\ UNCHANGED <<loggerVars, fileVars, termVars, rawMode, outN, errN, consumed,
                   sessLen, finished, escReady, logs, pushes, sanVars>>
    /\ UNCHANGED paint

\* Two processes that run Logger::new in the same directory.
Sessions == {1, 2}

\* One pass of the loop of Logger::new in process p up to the test of
\* exists(): the next number if the file exists, else on to the open.
RaceCheck(p) ==
    /\ sess[p].at = "check"
    /\ sess' = IF Exists(files, sess[p].num)
               THEN [sess EXCEPT ![p].num = @ + 1]
               ELSE [sess EXCEPT ![p].at = "open"]
    /\ UNCHANGED <<pc, loggerVars, fileVars, loopVars, termVars, logs, pushes,
                   paint, last, lim, sanIn, sanOut>>

\* The open of process p, with append(true).create(true), of the name whose
\* file it found missing.
RaceOpen(p) ==
    /\ sess[p].at = "open"
    /\ files' = OpenAppend(files, sess[p].num)
    /\ sess' = [sess EXCEPT ![p].at = "opened"]
    /\ UNCHANGED <<pc, loggerVars, flushedLen, ioErrs, loopVars, termVars, logs,
                   pushes, paint, last, lim, sanIn, sanOut>>

\* log_to_file of process p through the handle it opened.
RaceLog(p, i) ==
    /\ sess[p].at = "opened"
    /\ files' = WriteLn(files, sess[p].num, LogText(Messages[i]),
                        Len(LogText(Messages[i])) + 1)
    /\ sess' = [sess EXCEPT ![p].at = "logged"]
    /\ UNCHANGED <<pc, loggerVars, flushedLen, ioErrs, loopVars, termVars, logs,
                   pushes, paint, last, lim, sanIn, sanOut>>

\* The user presses Escape during a session: the event waits in the
\* EventStream until a select! polls the key branch.
DeliverEsc ==
    /\ pc = "Running"
    /\ ~escReady
    /\ escReady' = TRUE
    /\ UNCHANGED <<pc, loggerVars, fileVars, termVars, rawMode, disabled, outN, errN,
                   consumed, sessLen, finished, logs, pushes, paint, last, sanVars>>

\* The key branch of select! takes the Escape event that waits.
TakeEsc == escReady /\ KeyEsc("ok")

\* ------------------------------------------------------------------------
\* Specification of the Logger
\* ------------------------------------------------------------------------
\* The state before Logger::new, in a directory that holds the files of
\* `existing`, for a run within the bounds l.
InitWith(existing, l) ==
    /\ pc = "Start"
    /\ files = [n \in existing |-> OldContent]
    /\ lim = l
    /\ logNum = 0
    /\ flushedLen = 0
    /\ remote_buffer = <<>>
    /\ rawMode = FALSE
    /\ disabled = {}
    /\ outN = 0 /\ errN = 0
    /\ screen = [r \in 1..(PriorRows + 1) |-> IF r <= PriorRows THEN PriorRow ELSE Blank]
    /\ cursor = PriorRows + 1
    /\ ioErrs = 0 /\ logs = 0 /\ pushes = 0
    /\ pushed = <<>>
    /\ consumed = <<>>
    /\ sessLen = 0
    /\ finished = FALSE
    /\ escReady = FALSE
    /\ paint = [kind |-> "none", prev |-> 0, top |-> 0, cleared |-> 0]
    /\ last = [op |-> "init", ok |-> TRUE, io |-> TRUE, arg |-> 0]
    /\ sanIn = <<>> /\ sanOut = <<>>
    /\ sess = [p \in Sessions |-> [at |-> "check", num |-> 1]]

Next ==
    \/ New
    \/ NewFail
    \/ \E i \in 1..Len(Messages), tok \in BOOLEAN :
          \E k \in Outcomes(LogText(Messages[i])) : Log(i, k, tok)
    \/ \E i \in 1..lim.names, tok \in BOOLEAN :
          \E k \in Outcomes(UploadText(FileNames[i])) : AddUploadedFile(i, k, tok)
    \/ StopFilesDisplay
    \/ StartRemoteLogging
    \/ StartFail
    \/ \E src \in {"out", "err"}, tok \in BOOLEAN : StreamLineEvent(src, tok)
    \/ \E src \in {"out", "err"}, item \in {"Err", "None"} : StreamNoMatch(src, item)
    \/ \E res \in {"ok", "print", "raw"} : KeyEsc(res)
    \/ KeyOther
    \/ KeyErr

\* The Logger in a directory that holds deployment_1.txt and
\* deployment_3.txt: every operation, event and failure.
Init ==
    InitWith({1, 3}, [calls |-> MaxCalls, ioErrs |-> MaxIoErrs,
                      names |-> Len(FileNames)])

Spec == Init /\ [][Next]_vars

\* Long sequences of pushes: the operations and events that reach the
\* scroll buffer, with a terminal and a disk that do not fail.
BufInit ==
    InitWith({1, 3}, [calls |-> MaxDeepPushes, ioErrs |-> 0, names |-> 1])

BufNext ==
    \/ New
    \/ \E i \in 1..lim.names :
          \E k \in Outcomes(UploadText(FileNames[i])) : AddUploadedFile(i, k, TRUE)
    \/ StopFilesDisplay
    \/ StartRemoteLogging
    \/ \E src \in {"out", "err"} : StreamLineEvent(src, TRUE)
    \/ KeyEsc("ok")

BufSpec == BufInit /\ [][BufNext]_vars

\* A remote session whose Escape key waits in the EventStream while the
\* streams deliver lines, errors and their end, with a terminal that does
\* not fail.  select! polls its branches in random order, so that a key
\* branch that stays ready is taken in the end: weak fairness of TakeEsc.
LiveInit ==
    InitWith({1, 3}, [calls |-> MaxLiveLines, ioErrs |-> 0, names |-> 0])

LiveNext ==
    \/ New
    \/ StartRemoteLogging
    \/ DeliverEsc
    \/ \E src \in {"out", "err"} : StreamLineEvent(src, TRUE)
    \/ \E src \in {"out", "err"}, item \in {"Err", "None"} : StreamNoMatch(src, item)
    \/ KeyOther
    \/ KeyErr
    \/ TakeEsc

LiveSpec == LiveInit /\ [][LiveNext]_vars /\ WF_vars(TakeEsc)

\* Logger::new in every directory, followed by a short run.
OpenInit ==
    \E existing \in SUBSET (1..MaxExisting) :
        InitWith(existing, [calls |-> 1, ioErrs |-> 0, names |-> 1])

OpenSpec == OpenInit /\ [][Next]_vars

\* Two processes in Logger::new, in every directory, their steps
\* interleaved in every order.
RaceInit ==
    \E existing \in SUBSET (1..MaxExisting) :
        InitWith(existing, [calls |-> 0, ioErrs |-> 0, names |-> 0])

RaceNext ==
    \/ \E p \in Sessions : RaceCheck(p)
    \/ \E p \in Sessions : RaceOpen(p)
    \/ \E p \in Sessions : RaceLog(p, 1)

RaceSpec == RaceInit /\ [][RaceNext]_vars

\* ------------------------------------------------------------------------
\* Specification of the sanitizer: a text is typed character by character
\* and handed to ANSI_ESCAPE_CODE.replace_all.
\* ------------------------------------------------------------------------
SanInit == InitWith({}, [calls |-> 0, ioErrs |-> 0, names |-> 0])

SanType(c) ==
    /\ Len(sanIn) < MaxStrLen
    /\ sanIn' = Append(sanIn, c)
    /\ sanOut' = <<>>
    /\ last' = [op |-> "type", ok |-> TRUE, io |-> TRUE, arg |-> 0]
    /\ UNCHANGED <<pc, loggerVars, fileVars, loopVars, termVars, logs, pushes, lim>>
    /\ UNCHANGED <<paint, sess>>

SanApply ==
    /\ sanOut' = Sanitize(sanIn)
    /\ last' = [op |-> "sanitize", ok |-> TRUE, io |-> TRUE, arg |-> 0]
    /\ UNCHANGED <<pc, loggerVars, fileVars, loopVars, termVars, logs, pushes, lim, sanIn>>
    /\ UNCHANGED <<paint, sess>>

SanNext ==
    \/ \E c \in Chars : SanType(c)
    \/ SanApply

SanSpec == SanInit /\ [][SanNext]_vars

\* ------------------------------------------------------------------------
\* Helpers of the properties
\* ------------------------------------------------------------------------
Min(a, b) == IF a < b THEN a ELSE b

\* The last n elements of s.
LastN(s, n) == SubSeq(s, Len(s) - n + 1, Len(s))

IsPrefix(a, b) == Len(a) <= Len(b) /\ SubSeq(b, 1, Len(a)) = a

\* The log lines of a sequence of remote lines: each one sanitized and
\* terminated.
RECURSIVE LinesOf(_)
LinesOf(entries) ==
    IF entries = <<>> THEN <<>>
    ELSE Sanitize(StreamLine(Head(entries)[1], Head(entries)[2])) \o <<NL>>
         \o LinesOf(Tail(entries))

HasLogger == pc \in {"Idle", "Running", "Stopped"}

\* ------------------------------------------------------------------------
\* Properties
\* ------------------------------------------------------------------------

\* C1 (BufSpec): the scroll buffer never holds more than REMOTE_TERM_SIZE
\* entries, and it holds the last min(REMOTE_TERM_SIZE, n) of the n entries
\* pushed since it was created, in the order they were pushed, whether they
\* came from add_uploaded_file or from update_console.
C1_BufferIsTail ==
    /\ Len(remote_buffer) <= REMOTE_TERM_SIZE
    /\ remote_buffer = LastN(pushed, Min(REMOTE_TERM_SIZE, Len(pushed)))

\* Two pushes beyond the capacity, the last one a remote line.
C1_Witness ==
    /\ Len(pushed) = REMOTE_TERM_SIZE + 2
    /\ last.op = "line"
    /\ Len(remote_buffer) = REMOTE_TERM_SIZE

\* C2 (Spec), as claimed: when start_remote_logging has returned, the log
\* file has grown by one sanitized line for every remote line the loop
\* consumed, in the order of consumption.
C2_RemoteLinesLogged ==
    (last.op = "esc" /\ last.ok)
        => SubSeq(file, sessLen + 1, Len(file)) = LinesOf(consumed)

\* C3 (Spec), as claimed: between operations the log file holds no line
\* that was written and not flushed.
C3_NothingUnflushed ==
    HasLogger => flushedLen = Len(file)

\* C3 (Spec), amended: log flushes the file after its write, before it
\* returns; add_uploaded_file writes its line and does not flush, so that
\* line is unflushed when add_uploaded_file returns, and stays so until
\* the next log, stop_files_display or end of start_remote_logging, the
\* only operations that flush.
C3_Step ==
    /\ (last'.op = "log" /\ last'.ok) => flushedLen' = Len(file')
    /\ (last'.op = "upload" /\ last'.io)
          => (flushedLen' = flushedLen /\ flushedLen' < Len(file'))
    /\ (HasLogger /\ flushedLen' # flushedLen) => last'.op \in {"log", "stop", "esc"}

C3_LogFlushesUploadDoesNot == [][C3_Step]_vars

\* A log after an add_uploaded_file: its flush covers both lines.
C3_Witness ==
    /\ last.op = "log" /\ last.ok /\ last.io
    /\ pushes > 0
    /\ flushedLen = Len(file)

\* C4 (Spec), as claimed: the log file never holds an escape sequence
\* ESC [ params letter.
C4_NoEscapeInFile ==
    HasLogger => ~HasEscape(file)

\* C5 (SanSpec), as claimed: the sanitizer's output holds no escape
\* sequence, sanitizing it again changes nothing, and a text without an
\* escape sequence is returned as it is.
C5_SanitizeIdempotent ==
    last.op = "sanitize"
        => /\ Sanitize(sanOut) = sanOut
           /\ ~HasEscape(sanOut)
           /\ ~HasEscape(sanIn) => sanOut = sanIn

\* C6 (Spec): the log file only grows at its end.  No step removes or
\* alters what the file holds; a log or add_uploaded_file whose write
\* succeeds leaves the file as it was, followed by exactly that call's line.
C6_Step ==
    /\ (HasLogger /\ logNum' = logNum) => IsPrefix(file, file')
    /\ (last'.op = "log" /\ last'.ok /\ last'.io)
          => file' = file \o LogText(Messages[last'.arg]) \o <<NL>>
    /\ (last'.op = "upload" /\ last'.io)
          => file' = file \o UploadText(FileNames[last'.arg]) \o <<NL>>

C6_AppendOnly == [][C6_Step]_vars

\* A second line has been written after a first, one by each operation.
C6_Witness ==
    /\ logs = 1 /\ pushes = 1 /\ ioErrs = 0
    /\ last.op = "upload" /\ last.ok
    /\ Len(file) > Len(UploadText(FileNames[last.arg])) + 1
    /\ pc = "Idle"

\* C7 (OpenSpec): Logger::new opens deployment_<n>.txt for the smallest
\* n >= 1 whose file does not exist, creates it empty, and leaves every
\* file that exists as it is.
C7_Step ==
    (pc = "Start" /\ pc' = "Idle")
        => /\ logNum' >= 1
           /\ logNum' \notin DOMAIN files
           /\ \A m \in 1..(logNum' - 1) : m \in DOMAIN files
           /\ DOMAIN files' = DOMAIN files \cup {logNum'}
           /\ files'[logNum'] = <<>>
           /\ \A m \in DOMAIN files : files'[m] = files[m]

C7_SmallestUnused == [][C7_Step]_vars

\* A directory with a gap: deployment_1.txt and deployment_3.txt exist and
\* deployment_2.txt has been created.
C7_Witness ==
    /\ last.op = "new" /\ last.ok
    /\ logNum = 2
    /\ DOMAIN files = {1, 2, 3}

\* C8 (Spec): when the Escape handler and the code after the loop have run
\* (no terminal call failed), the "finished" line is on the row above the
\* cursor, raw mode is off, the loop is Stopped, the scroll buffer is empty
\* and the log file is flushed.
C8_EscapeStops ==
    (last.op = "esc" /\ last.ok)
        => /\ pc = "Stopped"
           /\ finished
           /\ cursor > 1 /\ screen[cursor - 1] = FinishedRow
           /\ ~rawMode
           /\ remote_buffer = <<>>
           /\ flushedLen = Len(file)

\* Escape in a session that had pushed a remote line into a buffer that
\* already held an uploaded file, whose line in the log was unflushed.
C8_Witness ==
    /\ last.op = "esc" /\ last.ok
    /\ consumed # <<>>
    /\ pushes > Len(consumed)
    /\ logs = 0
    /\ sessLen > 0

\* C9 (Spec): once a session has printed its "finished" line, nothing that
\* session does pushes or repaints a remote line: the lines handed to
\* update_console stay those consumed before Escape, and no remote line
\* enters the buffer.
C9_Step ==
    (finished /\ finished')
        => /\ consumed' = consumed
           /\ \A j \in 1..Len(remote_buffer') : remote_buffer'[j][1] = "up"
           /\ last'.op # "line"

C9_NothingAfterFinished == [][C9_Step]_vars

\* After a session that rendered a line and was cancelled, the Logger has
\* gone on to another operation.
C9_Witness ==
    /\ finished
    /\ consumed # <<>>
    /\ last.op \in {"log", "upload"} /\ last.ok

\* C10 (Spec), as claimed: a key event other than Escape and a malformed
\* line change neither the scroll buffer, the log file, the terminal nor
\* raw mode, and leave the loop Running.
C10_Step ==
    (pc = "Running" /\ last'.op \in {"key", "line_err"})
        => /\ pc' = "Running"
           /\ UNCHANGED <<remote_buffer, files, screen, cursor, rawMode>>

C10_IgnoredEvents == [][C10_Step]_vars

\* C11 (BufSpec), as claimed: every repaint, of update_console and of
\* add_uploaded_file, clears prev_len + 1 rows, prev_len being the buffer's
\* length before the push.
C11_ClearsPrevPlusOne ==
    (last.op \in {"upload", "line"} /\ last.ok)
        => paint.cleared = paint.prev + 1

\* C11 (BufSpec), amended: every repaint clears one row per line of the
\* buffer after the push and one row more (the status row, or the row under
\* the file list): prev_len + 2 rows while the buffer grows, prev_len + 1
\* rows once it is full.
C11_ClearsNewLengthPlusOne ==
    (last.op \in {"upload", "line"} /\ last.ok)
        => /\ paint.cleared = Len(remote_buffer) + 1
           /\ paint.cleared = IF paint.prev < REMOTE_TERM_SIZE
                               THEN paint.prev + 2
                               ELSE paint.prev + 1

\* A repaint of the remote console on a full buffer, after repaints of both
\* modes on a growing one.
C11_Witness ==
    /\ last.op = "line" /\ last.ok
    /\ paint.kind = "console"
    /\ paint.prev = REMOTE_TERM_SIZE /\ paint.cleared = REMOTE_TERM_SIZE + 1
    /\ \E j \in 1..Len(pushed) : pushed[j][1] = "up"

\* C12 (Spec), as claimed: the scroll buffer is empty when a remote session
\* begins, it never holds upload notices and remote lines together, and the
\* first repaint of a remote session sees prev_len = 0.
C12_ModesNeverShareBuffer ==
    /\ (pc = "Running" /\ consumed = <<>>) => remote_buffer = <<>>
    /\ ~ \E j, k \in 1..Len(remote_buffer) :
            remote_buffer[j][1] = "up" /\ remote_buffer[k][1] \in {"out", "err"}
    /\ (last.op = "line" /\ last.ok /\ Len(consumed) = 1) => paint.prev = 0

\* C13 (Spec): a write to the log file that fails, the terminal working, is
\* reported and nothing more: log and add_uploaded_file return normally,
\* log_to_file still calls flush, and add_uploaded_file pushes its entry
\* and repaints the list as it does when the write succeeds.
C13_Step ==
    (last'.op \in {"log", "upload"} /\ last'.ok /\ ~last'.io
     /\ logs' + pushes' = logs + pushes + 1)
        => /\ pc' = pc
           /\ ioErrs' = ioErrs + 1
           /\ IsPrefix(file, file') /\ Len(file') <= Len(file) + MaxStrLen + 4
           /\ last'.op = "log"
                => /\ flushedLen' = Len(file')
                   /\ remote_buffer' = remote_buffer
           /\ last'.op = "upload"
                => LET t == RepaintFiles(Term(screen, cursor), Len(remote_buffer),
                                         Push(remote_buffer, <<"up", last'.arg>>))
                   IN  /\ remote_buffer' = Push(remote_buffer, <<"up", last'.arg>>)
                       /\ screen' = t.rows /\ cursor' = t.row

C13_WriteFailureNotFatal == [][C13_Step]_vars

\* A log that was written after an earlier write had failed.
C13_Witness ==
    /\ ioErrs > 0
    /\ last.op = "log" /\ last.ok /\ last.io
    /\ logs + pushes > 1
    /\ pc \in {"Idle", "Stopped"}

\* C14 (BufSpec), as claimed: a repaint that follows a repaint of the same
\* session and mode has, after its MoveUp, the cursor on the row the
\* previous repaint began at, so that the top row of the window does not
\* move, in the remote console and in the list of uploaded files.
C14_Step ==
    (last'.op \in {"upload", "line"} /\ last'.ok /\ pushes' = pushes + 1
     /\ paint'.kind = paint.kind /\ paint'.prev >= 1)
        => paint'.top = paint.top

C14_TopRowFixed == [][C14_Step]_vars

\* C15 (Spec), as claimed: whatever the three sources yield, and no write to
\* the terminal failing, the loop leaves Running only on the Escape key;
\* streams that end or yield errors leave it Running.
C15_Step ==
    (pc = "Running" /\ pc' # "Running" /\ last'.ok)
        => last'.op = "esc"

C15_OnlyEscapeLeavesRunning == [][C15_Step]_vars

\* C16 (LiveSpec), as claimed: an Escape key event delivered while the loop
\* is Running leads to Stopped, the key branch being served fairly.
C16_EscapeEventuallyStops == (pc = "Running" /\ escReady) ~> (pc = "Stopped")

\* The entries of a sequence that came from stdout, and from stderr.
FromOut(e) == e[1] = "out"
FromErr(e) == e[1] = "err"

\* The entries of one stream in `entries` are the lines up to the n-th that
\* the stream delivered, in the order of delivery, none missing or twice.
LatestInOrder(entries, n) ==
    \A j \in 1..Len(entries) : entries[j][2] = n - Len(entries) + j

\* C17 (BufSpec): the loop handles one event at a time, each line once: the
\* lines update_console was given are, stream by stream, the lines the
\* stream delivered, in order; those in the buffer are the latest of each
\* stream, in order; and the repaint shows the buffer top down over the
\* status row.
C17_Step ==
    /\ pushes' \in {pushes, pushes + 1}
    /\ \/ consumed' \in {consumed, <<>>}
       \/ /\ Len(consumed') = Len(consumed) + 1
          /\ SubSeq(consumed', 1, Len(consumed)) = consumed
          /\ pushes' = pushes + 1
    /\ Len(SelectSeq(consumed', FromOut)) = outN'
    /\ Len(SelectSeq(consumed', FromErr)) = errN'
    /\ LatestInOrder(SelectSeq(consumed', FromOut), outN')
    /\ LatestInOrder(SelectSeq(consumed', FromErr), errN')
    /\ LatestInOrder(SelectSeq(remote_buffer', FromOut), outN')
    /\ LatestInOrder(SelectSeq(remote_buffer', FromErr), errN')
    /\ (last'.op = "line" /\ last'.ok)
        => /\ \A j \in 1..Len(remote_buffer') :
                 screen'[paint'.top + j - 1] = RowOf(remote_buffer'[j])
           /\ screen'[paint'.top + Len(remote_buffer')] = StatusRow
           /\ remote_buffer'[Len(remote_buffer')] = consumed'[Len(consumed')]

C17_StreamOrderKept == [][C17_Step]_vars

\* Both streams have delivered lines in turn, more than the buffer holds.
C17_Witness ==
    /\ pc = "Running" /\ last.op = "line" /\ last.ok
    /\ outN >= 2 /\ errN >= 2
    /\ Len(consumed) > REMOTE_TERM_SIZE
    /\ consumed[1][1] # consumed[2][1]

\* C18 (RaceSpec), as claimed: two processes whose Logger::new run
\* interleaved in the same directory never hold the same deployment_<n>.txt
\* open for appending.
C18_SessionsUseDistinctFiles ==
    \A p, q \in Sessions :
        (p # q /\ sess[p].at \in {"opened", "logged"} /\ sess[q].at \in {"opened", "logged"})
            => sess[p].num # sess[q].num

\* C19 (Spec), as claimed: the terminal is in raw mode while the loop is
\* Running and, unless disable_raw_mode itself failed, never after
\* start_remote_logging has stopped executing, be it by Escape or by a
\* write to the terminal that failed.
C19_RawModeOnlyWhileRunning ==
    /\ pc = "Running" => rawMode
    /\ (pc # "Running" /\ ~(pc = "Panicked" /\ last.op = "esc" /\ finished))
        => ~rawMode

====
